---- MODULE Spec2Model ----
(***************************************************************************)
(* Model of the flight-radar demo: the corridor filter, the flight-point   *)
(* builder and the pulse builder of utils.py, and the script of demo.py    *)
(* (startup, plane markers, the animation loop).                           *)
(*                                                                         *)
(* Conventions                                                             *)
(*  - wall-clock time is an integer number of milliseconds since the       *)
(*    epoch (time.time() * 1000);                                          *)
(*  - a real number is kept exactly as a fraction [num, den];              *)
(*  - a planar region (a corridor, a hazard polygon) is the set of grid    *)
(*    cells it covers, so that union and intersection are computed;        *)
(*  - a Python call either returns or raises: [outcome, exc, value].       *)
(***************************************************************************)
EXTENDS Integers, Sequences, FiniteSets, TLC

VARIABLES
    sigmet_geojson,   \* argument of hazards_intersecting_route / the fetched feed
    buffers,          \* argument of hazards_intersecting_route: corridor polygons
    filter_result,    \* outcome of the call of hazards_intersecting_route
    flights,          \* argument of flights_to_layer
    flights_result,   \* outcome of the call of flights_to_layer
    pulse_features,   \* argument of sigmet_pulse_layers
    pulse_scale,      \* argument of sigmet_pulse_layers (numerator over the cycle)
    pulse_result,     \* outcome of the call of sigmet_pulse_layers
    sel_route,        \* route whose precomputed points are sliced
    sel_frame,        \* frame index handed to the slice
    sel_result,       \* outcome of the slice
    now,              \* the wall clock, ms
    pc,               \* position of the script / of the call under study
    sigmet_hits,      \* demo.py: hits computed at startup
    plane_layers,     \* demo.py: plane layers (one per route)
    plane_frame,      \* frame computed by the last call of get_plane_layers
    scale,            \* demo.py: phase of the current tick (numerator over the cycle)
    tick_now,         \* wall-clock reading of the last tick
    deck,             \* what the last tick handed to the renderer
    last_render,      \* "none", "ok" or "error": how the last render call ended
    errors            \* number of st.error reports

vars == <<sigmet_geojson, buffers, filter_result, flights, flights_result,
          pulse_features, pulse_scale, pulse_result, sel_route, sel_frame,
          sel_result, now, pc, sigmet_hits, plane_layers, plane_frame, scale,
          tick_now, deck, last_render, errors>>

(***************************************************************************)
(* Program constants (demo.py, utils.py)                                   *)
(***************************************************************************)
N_POINTS == 100
CYCLE_DURATION_MS == 3000
FRAME_RATE == 30
PLANE_SPEED_FACTOR == 2
MAX_RADIUS == 250000
BASE_OPACITY == 160
MsPerSecond == 1000

\* coordinates in hundredths of a degree
ROUTES ==
    << [from |-> <<7710, 2860>>, to |-> <<7287, 1907>>],
       [from |-> <<7710, 2860>>, to |-> <<7759, 1297>>],
       [from |-> <<7759, 1297>>, to |-> <<8836, 2257>>] >>

(***************************************************************************)
(* Bounds of the model                                                     *)
(***************************************************************************)
NumCells == 2        \* grid cells of the plane
MaxFeatures == 2     \* features in a feed
MaxBuffers == 2      \* corridors handed to the filter
MaxFlights == 2      \* flight records in a feed
MaxPulseFeatures == 2
MaxClock == 50999    \* largest wall-clock reading of the plane-layer study, ms
MaxNow == 6100       \* largest wall-clock reading of the loop, ms
FrameMargin == 3     \* how far outside [-N, N) the slice study goes

Cells == 1..NumCells

SeqsUpTo(S, n) == UNION {[1..k -> S] : k \in 0..n}

Returned(v) == [outcome |-> "return", exc |-> "", value |-> v]
Raised(e) == [outcome |-> "raise", exc |-> e, value |-> <<>>]
NotCalled == [outcome |-> "none", exc |-> "", value |-> <<>>]

(***************************************************************************)
(* utils.py: the corridor filter                                           *)
(***************************************************************************)
\* A feed entry: a JSON object with a geometry member, or something else (null).
\* geometry: "absent" (no member, or null), "empty" ({}), "unparseable" (shape()
\* raises), "invalid" (parses, is_valid is False), "valid".
Features ==
    {[kind |-> "notdict", geometry |-> "absent", cells |-> {}]}
    \cup {[kind |-> "dict", geometry |-> g, cells |-> {}] :
             g \in {"absent", "empty", "unparseable"}}
    \cup {[kind |-> "dict", geometry |-> g, cells |-> c] :
             g \in {"invalid", "valid"}, c \in SUBSET Cells}

\* The feed: None, {}, an object without "features", {"features": null},
\* {"features": [...]}.
Feeds ==
    {[kind |-> k, features |-> <<>>] : k \in {"None", "empty", "nokey", "nullfeatures"}}
    \cup {[kind |-> "list", features |-> fs] : fs \in SeqsUpTo(Features, MaxFeatures)}

\* A corridor is the buffer of a line by a positive distance: a nonempty region.
Corridors == (SUBSET Cells) \ {{}}

\* shapely.ops.unary_union
unary_union(polys) == UNION {polys[i] : i \in DOMAIN polys}

\* geom.intersects(other)
intersects(a, b) == a \cap b # {}

\* `not geom_json`
geom_falsy(feat) == feat.geometry \in {"absent", "empty"}

\* shape(geom_json) raises
shape_raises(feat) == feat.geometry = "unparseable"

is_valid(feat) == feat.geometry = "valid"

\* hits.append(feat)
hits_append(hits, feat) == Append(hits, feat)

\* the test of line 76 without its validity check
feature_hits_any_validity(feat, union_buf) == intersects(feat.cells, union_buf)

\* the test of line 76
feature_hits(feat, union_buf) == is_valid(feat) /\ intersects(feat.cells, union_buf)

\* the for loop of hazards_intersecting_route, from the features left to visit
RECURSIVE filter_loop(_, _, _)
filter_loop(feats, union_buf, hits) ==
    IF feats = <<>> THEN Returned(hits)
    ELSE LET feat == Head(feats) IN
         IF feat.kind # "dict" THEN Raised("AttributeError")   \* feat.get on a non-object
         ELSE IF geom_falsy(feat) THEN filter_loop(Tail(feats), union_buf, hits)
         ELSE IF shape_raises(feat) THEN filter_loop(Tail(feats), union_buf, hits)
         ELSE IF feature_hits(feat, union_buf)
              THEN filter_loop(Tail(feats), union_buf, hits_append(hits, feat))
              ELSE filter_loop(Tail(feats), union_buf, hits)

hazards_intersecting_route(geo, bufs) ==
    IF geo.kind \in {"None", "empty"} \/ geo.kind = "nokey" THEN Returned(<<>>)
    ELSE IF geo.kind = "nullfeatures" THEN Raised("TypeError")   \* for feat in None
    ELSE filter_loop(geo.features, unary_union(bufs), <<>>)

(***************************************************************************)
(* utils.py: flight points                                                 *)
(***************************************************************************)
\* A JSON value that d.get(key) yields: None (member absent or null) or a number.
None == <<>>
Num(n) == <<n>>
Longitudes == {0, 7}
Latitudes == {3}
LonVals == {None} \cup {Num(n) : n \in Longitudes}
LatVals == {None} \cup {Num(n) : n \in Latitudes}

\* The "live" / "arrival" member of a record: absent or null, or an object.
Sections ==
    {[isdict |-> FALSE, longitude |-> None, latitude |-> None]}
    \cup {[isdict |-> TRUE, longitude |-> lo, latitude |-> la] :
             lo \in LonVals, la \in LatVals}

FlightRecords == [live : Sections, arrival : Sections]

\* `f.get(key) or {}`: an absent, null or empty member reads as {}
or_empty(section) ==
    IF section.isdict THEN section
    ELSE [isdict |-> TRUE, longitude |-> None, latitude |-> None]

\* `not x` in place of `x is None`: 0 reads as missing too
is_falsy(x) == x = None \/ x = Num(0)

\* `x is None`
is_none(x) == x = None

\* float(x) of a JSON number
float(x) == x[1]

\* the test of lines 105 and 109
position_missing(lon, lat) == is_none(lon) \/ is_none(lat)

\* the for loop of flights_to_layer
RECURSIVE flights_loop(_, _)
flights_loop(fs, pts) ==
    IF fs = <<>> THEN pts
    ELSE LET f == Head(fs)
             live == or_empty(f.live)
             arr == or_empty(f.arrival)
             fallback == position_missing(live.longitude, live.latitude)
             lon == IF fallback THEN arr.longitude ELSE live.longitude
             lat == IF fallback THEN arr.latitude ELSE live.latitude
         IN  IF position_missing(lon, lat)
             THEN flights_loop(Tail(fs), pts)
             ELSE flights_loop(Tail(fs),
                               Append(pts, [lon |-> float(lon), lat |-> float(lat)]))

\* the layer, or None when there is no point
flights_to_layer(fs) ==
    LET pts == flights_loop(fs, <<>>) IN
    IF pts = <<>> THEN Returned([isNone |-> TRUE, data |-> <<>>])
    ELSE Returned([isNone |-> FALSE, data |-> pts])

(***************************************************************************)
(* utils.py: pulses                                                        *)
(***************************************************************************)
RECURSIVE SumOf(_)
SumOf(S) == IF S = {} THEN 0 ELSE LET x == CHOOSE y \in S : TRUE IN x + SumOf(S \ {x})

\* polygon_centroid: None when shape() raises (no geometry, not an object,
\* unparseable), else the centroid of the region (mean of its cells).
centroid_available(feat) ==
    feat.kind = "dict" /\ feat.geometry \in {"invalid", "valid"}

polygon_centroid(feat) ==
    IF centroid_available(feat)
    THEN <<[num |-> SumOf(feat.cells), den |-> Cardinality(feat.cells)]>>
    ELSE None

\* a radius that starts from nothing: max_radius * scale
pulse_radius_from_zero(t) == [num |-> MAX_RADIUS * t, den |-> CYCLE_DURATION_MS]

\* radius = max_radius * (0.2 + 0.8 * scale), scale = t / CYCLE_DURATION_MS:
\* max_radius * (2 * cycle + 8 * t) / (10 * cycle), the 10 divided out of max_radius
pulse_radius(t) ==
    [num |-> (MAX_RADIUS \div 10) * (2 * CYCLE_DURATION_MS + 8 * t),
     den |-> CYCLE_DURATION_MS]

Max(a, b) == IF a >= b THEN a ELSE b
Min(a, b) == IF a <= b THEN a ELSE b

\* opacity = max(0, min(255, int(160 * (1.0 - scale))))
pulse_opacity(t) ==
    Max(0, Min(255, (BASE_OPACITY * (CYCLE_DURATION_MS - t)) \div CYCLE_DURATION_MS))

\* the layers of one feature without the `if not c: continue` of line 149
feature_pulses_unchecked(feat, t) ==
    << [position |-> IF polygon_centroid(feat) = None
                     THEN [num |-> 0, den |-> 1]
                     ELSE polygon_centroid(feat)[1],
        radius |-> pulse_radius(t),
        opacity |-> pulse_opacity(t)] >>

\* the layers appended for one feature (lines 148-167)
feature_pulses(feat, t) ==
    IF polygon_centroid(feat) = None THEN <<>>
    ELSE << [position |-> polygon_centroid(feat)[1],
             radius |-> pulse_radius(t),
             opacity |-> pulse_opacity(t)] >>

RECURSIVE sigmet_pulse_layers(_, _)
sigmet_pulse_layers(feats, t) ==
    IF feats = <<>> THEN <<>>
    ELSE feature_pulses(Head(feats), t) \o sigmet_pulse_layers(Tail(feats), t)

\* features whose geometry, when it parses, is a nonempty region
PulseFeatures == {f \in Features : centroid_available(f) => f.cells # {}}

(***************************************************************************)
(* demo.py: route points and plane markers                                 *)
(***************************************************************************)
\* np.linspace(a, b, N_POINTS)[i], as a fraction over N_POINTS - 1
linspace(a, b, i) == [num |-> a * (N_POINTS - 1) + i * (b - a), den |-> N_POINTS - 1]

\* one table of N_POINTS rows per route, rows indexed from 0
precompute_route_points(routes) ==
    [r \in DOMAIN routes |->
        [i \in 0..(N_POINTS - 1) |->
            [lon |-> linspace(routes[r].from[1], routes[r].to[1], i),
             lat |-> linspace(routes[r].from[2], routes[r].to[2], i)]]]

\* plane_traces, computed once at startup and never changed
plane_traces == precompute_route_points(ROUTES)

\* a slice bound as Python and pandas normalise it: negative counts from the
\* end, then clamped to [0, N]
slice_bound(i) == IF i < 0 THEN Max(i + N_POINTS, 0) ELSE Min(i, N_POINTS)

\* points.iloc[start:stop]: the rows of the slice (possibly none), never an error
iloc_slice(points, start, stop) ==
    LET lo == slice_bound(start)
        hi == slice_bound(stop)
    IN  [k \in 1..Max(hi - lo, 0) |-> points[lo + k - 1]]

\* plane_pos = points.iloc[frame:frame+1]
plane_pos(points, frame) == Returned(iloc_slice(points, frame, frame + 1))

\* int(now) * PLANE_SPEED_FACTOR % N_POINTS: the clock truncated before scaling
clock_frame_truncated(now_ms) ==
    ((now_ms \div MsPerSecond) * PLANE_SPEED_FACTOR) % N_POINTS

\* frame = int(now * PLANE_SPEED_FACTOR % N_POINTS), now in seconds
clock_frame(now_ms) ==
    ((now_ms * PLANE_SPEED_FACTOR) % (N_POINTS * MsPerSecond)) \div MsPerSecond

\* get_plane_layers: one layer per route, its data the slice at the clock's frame
get_plane_layers(route_points, now_ms) ==
    [r \in DOMAIN route_points |->
        [data |-> plane_pos(route_points[r], clock_frame(now_ms)).value]]

\* time.time() % CYCLE_DURATION_MS: the factor 1000 forgotten
phase_of_seconds(now_ms) == (now_ms \div MsPerSecond) % CYCLE_DURATION_MS

\* t = (time.time() * 1000) % CYCLE_DURATION_MS; scale = t / CYCLE_DURATION_MS:
\* the numerator of scale over CYCLE_DURATION_MS
phase(now_ms) == now_ms % CYCLE_DURATION_MS

(***************************************************************************)
(* demo.py: the script                                                     *)
(***************************************************************************)
\* time.sleep(1 / FRAME_RATE) plus the tick's own work: at least 1 / FRAME_RATE s
Delays == {d \in {34, 500, 3000} : d * FRAME_RATE >= MsPerSecond}

\* the program reads the clock only modulo CYCLE_DURATION_MS (phase) and modulo
\* N_POINTS / PLANE_SPEED_FACTOR seconds (frame): a common multiple of both
ClockPeriod == 3 * ((N_POINTS * MsPerSecond) \div PLANE_SPEED_FACTOR)

\* an except clause inside the loop that swallows the error: the loop goes on
except_handler_in_loop(errs) == [pc |-> "sleep", errors |-> errs]

\* the except clause around the while loop (lines 167-168): the loop is left
\* and st.error is called
except_handler(errs) == [pc |-> "stopped", errors |-> errs + 1]

\* the layers of one tick (lines 151-158)
tick_layers(pulse_layers) ==
    [routes |-> ROUTES,
     planes |-> plane_layers,
     flights |-> flights_result.value,
     hazards |-> sigmet_hits,
     pulses |-> pulse_layers]

NoDeck == [routes |-> <<>>, planes |-> <<>>, flights |-> <<>>, hazards |-> <<>>,
           pulses |-> <<>>]

\* values of the variables a specification does not use
FilterIdle ==
    /\ sigmet_geojson = [kind |-> "None", features |-> <<>>]
    /\ buffers = <<>>
    /\ filter_result = NotCalled
FlightsIdle == flights = <<>> /\ flights_result = NotCalled
PulseIdle == pulse_features = <<>> /\ pulse_scale = 0 /\ pulse_result = NotCalled
SelectIdle == sel_route = 1 /\ sel_frame = 0 /\ sel_result = NotCalled
PlaneIdle == plane_layers = <<>> /\ plane_frame = 0
LoopIdle ==
    /\ sigmet_hits = <<>>
    /\ scale = 0
    /\ tick_now = 0
    /\ deck = NoDeck
    /\ last_render = "none"
    /\ errors = 0

filterVars == <<sigmet_geojson, buffers, filter_result>>
flightsVars == <<flights, flights_result>>
pulseVars == <<pulse_features, pulse_scale, pulse_result>>
selectVars == <<sel_route, sel_frame, sel_result>>
planeVars == <<plane_layers, plane_frame>>
loopVars == <<sigmet_hits, scale, tick_now, deck, last_render, errors>>

(***************************************************************************)
(* The calls of the functions of utils.py and demo.py, each on its own     *)
(***************************************************************************)
CallFilter ==
    /\ pc = "call"
    /\ filter_result' = hazards_intersecting_route(sigmet_geojson, buffers)
    /\ pc' = "done"
    /\ UNCHANGED <<sigmet_geojson, buffers, flightsVars, pulseVars, selectVars,
                   now, planeVars, loopVars>>

InitFilter ==
    /\ sigmet_geojson \in Feeds
    /\ buffers \in SeqsUpTo(Corridors, MaxBuffers)
    /\ filter_result = NotCalled
    /\ pc = "call" /\ now = 0
    /\ FlightsIdle /\ PulseIdle /\ SelectIdle /\ PlaneIdle /\ LoopIdle

SpecFilter == InitFilter /\ [][CallFilter]_vars

CallFlights ==
    /\ pc = "call"
    /\ flights_result' = flights_to_layer(flights)
    /\ pc' = "done"
    /\ UNCHANGED <<flights, filterVars, pulseVars, selectVars, now, planeVars,
                   loopVars>>

InitFlights ==
    /\ flights \in SeqsUpTo(FlightRecords, MaxFlights)
    /\ flights_result = NotCalled
    /\ pc = "call" /\ now = 0
    /\ FilterIdle /\ PulseIdle /\ SelectIdle /\ PlaneIdle /\ LoopIdle

SpecFlights == InitFlights /\ [][CallFlights]_vars

\* the features the pulse study draws from
PulseCases ==
    {f \in PulseFeatures :
        \/ f.kind = "notdict"
        \/ f.geometry = "absent"
        \/ f.geometry = "valid" /\ f.cells = {1}
        \/ f.geometry = "invalid" /\ f.cells = Cells}

CallPulse ==
    /\ pc = "call"
    /\ pulse_result' = Returned(sigmet_pulse_layers(pulse_features, pulse_scale))
    /\ pc' = "done"
    /\ UNCHANGED <<pulse_features, pulse_scale, filterVars, flightsVars,
                   selectVars, now, planeVars, loopVars>>

InitPulse ==
    /\ pulse_features \in SeqsUpTo(PulseCases, MaxPulseFeatures)
    /\ pulse_scale \in 0..(CYCLE_DURATION_MS - 1)
    /\ pulse_result = NotCalled
    /\ pc = "call" /\ now = 0
    /\ FilterIdle /\ FlightsIdle /\ SelectIdle /\ PlaneIdle /\ LoopIdle

SpecPulse == InitPulse /\ [][CallPulse]_vars

CallGetPlaneLayers ==
    /\ pc = "call"
    /\ plane_frame' = clock_frame(now)
    /\ plane_layers' = get_plane_layers(plane_traces, now)
    /\ pc' = "done"
    /\ UNCHANGED <<now, filterVars, flightsVars, pulseVars, selectVars, loopVars>>

InitPlane ==
    /\ now \in 0..MaxClock
    /\ pc = "call"
    /\ FilterIdle /\ FlightsIdle /\ PulseIdle /\ SelectIdle /\ PlaneIdle /\ LoopIdle

SpecPlane == InitPlane /\ [][CallGetPlaneLayers]_vars

CallPlanePos ==
    /\ pc = "call"
    /\ sel_result' = plane_pos(plane_traces[sel_route], sel_frame)
    /\ pc' = "done"
    /\ UNCHANGED <<sel_route, sel_frame, filterVars, flightsVars, pulseVars, now,
                   planeVars, loopVars>>

InitSelect ==
    /\ sel_route \in DOMAIN ROUTES
    /\ sel_frame \in (0 - N_POINTS - FrameMargin)..(N_POINTS + FrameMargin)
    /\ sel_result = NotCalled
    /\ pc = "call" /\ now = 0
    /\ FilterIdle /\ FlightsIdle /\ PulseIdle /\ PlaneIdle /\ LoopIdle

SpecSelect == InitSelect /\ [][CallPlanePos]_vars

(***************************************************************************)
(* The script of demo.py: startup, then the animation loop                 *)
(***************************************************************************)
ValidOn(c) == [kind |-> "dict", geometry |-> "valid", cells |-> c]

\* the feeds and flights the script study starts from
LoopFeeds ==
    { [kind |-> "None", features |-> <<>>],
      [kind |-> "nullfeatures", features |-> <<>>],
      [kind |-> "list", features |-> << ValidOn({1}) >>],
      [kind |-> "list", features |-> << ValidOn({2}), ValidOn(Cells) >>] }

LoopFlights ==
    { <<>>,
      << [live |-> [isdict |-> TRUE, longitude |-> Num(7), latitude |-> Num(3)],
          arrival |-> [isdict |-> FALSE, longitude |-> None, latitude |-> None]] >> }

StartTimes == {0, 2990}

\* route_buffers(routes_to_linestrings(ROUTES)): one corridor per route
LoopBuffers == [r \in DOMAIN ROUTES |-> {1}]

InitLoop ==
    /\ sigmet_geojson \in LoopFeeds
    /\ buffers = LoopBuffers
    /\ filter_result = NotCalled
    /\ flights \in LoopFlights
    /\ flights_result = NotCalled
    /\ now \in StartTimes
    /\ pc = "start"
    /\ PulseIdle /\ SelectIdle /\ PlaneIdle /\ LoopIdle

\* lines 99-131: the filter, the layers built once, the placeholder
Startup ==
    /\ pc = "start"
    /\ LET r == hazards_intersecting_route(sigmet_geojson, buffers) IN
       /\ filter_result' = r
       /\ IF r.outcome = "raise"
          THEN /\ pc' = "crashed"
               /\ UNCHANGED <<sigmet_hits, planeVars, flights_result>>
          ELSE /\ sigmet_hits' = r.value
               /\ plane_frame' = clock_frame(now)
               /\ plane_layers' = get_plane_layers(plane_traces, now)
               /\ flights_result' = flights_to_layer(flights)
               /\ pc' = "loop"
    /\ UNCHANGED <<sigmet_geojson, buffers, flights, pulseVars, selectVars, now,
                   scale, tick_now, deck, last_render, errors>>

\* one pass of the while loop up to the render call, which returns
Tick ==
    /\ pc = "loop"
    /\ tick_now' = now
    /\ scale' = phase(now)
    /\ deck' = tick_layers(sigmet_pulse_layers(sigmet_hits, phase(now)))
    /\ last_render' = "ok"
    /\ pc' = "sleep"
    /\ UNCHANGED <<filterVars, flightsVars, pulseVars, selectVars, now,
                   sigmet_hits, planeVars, errors>>

\* one pass of the while loop whose render call raises: the except clause runs
TickRenderError ==
    /\ pc = "loop"
    /\ tick_now' = now
    /\ scale' = phase(now)
    /\ last_render' = "error"
    /\ pc' = except_handler(errors).pc
    /\ errors' = except_handler(errors).errors
    /\ UNCHANGED <<filterVars, flightsVars, pulseVars, selectVars, now,
                   sigmet_hits, planeVars, deck>>

\* time.sleep(1 / FRAME_RATE): the clock moves on, then the next pass
Sleep ==
    /\ pc = "sleep"
    /\ \E d \in Delays :
          /\ now + d <= MaxNow
          /\ now' = now + d
    /\ pc' = "loop"
    /\ UNCHANGED <<filterVars, flightsVars, pulseVars, selectVars, planeVars,
                   loopVars>>

Init == InitLoop

Next == Startup \/ Tick \/ TickRenderError \/ Sleep

Spec == Init /\ [][Next]_vars

\* the coarser delays, which keep the residues of the wrapped clock few
LiveDelays == {d \in Delays : d >= 500}

\* the same sleep with the clock kept modulo ClockPeriod, so that the loop
\* never runs out of clock
SleepWrap ==
    /\ pc = "sleep"
    /\ \E d \in LiveDelays : now' = (now + d) % ClockPeriod
    /\ pc' = "loop"
    /\ UNCHANGED <<filterVars, flightsVars, pulseVars, selectVars, planeVars,
                   loopVars>>

NextLive == Startup \/ Tick \/ TickRenderError \/ SleepWrap

\* the script is one thread that runs on: a pass that can be taken is taken,
\* and a sleep returns
LiveSpec ==
    /\ Init
    /\ [][NextLive]_vars
    /\ WF_vars(Tick \/ TickRenderError)
    /\ WF_vars(SleepWrap)

(***************************************************************************)
(* Properties                                                              *)
(***************************************************************************)
\* the entries of the feed, none when the feed or its collection is missing
FeedFeatures == IF sigmet_geojson.kind = "list" THEN sigmet_geojson.features ELSE <<>>

\* a feature collection: every entry of the feed is a feature object, and the
\* collection, when the feed names one, is a list
IsFeatureCollection ==
    /\ sigmet_geojson.kind # "nullfeatures"
    /\ \A i \in DOMAIN FeedFeatures : FeedFeatures[i].kind = "dict"

GeometryPresent(f) == f.geometry \notin {"absent", "empty"}
GeometryParses(f) == f.geometry # "unparseable"
GeometryValid(f) == f.geometry # "invalid"
IntersectsCorridors(f) == \E i \in DOMAIN buffers : f.cells \cap buffers[i] # {}

MeetsAllFour(f) ==
    /\ GeometryPresent(f)
    /\ GeometryParses(f)
    /\ GeometryValid(f)
    /\ IntersectsCorridors(f)

\* C1: for every feature collection and every list of corridors, the filter
\* returns exactly the subsequence of the input features whose geometry is
\* present, parses, is valid and intersects a corridor, in input order.
C1_HitsAreTheIntersectingSubsequence ==
    (pc = "done" /\ IsFeatureCollection)
        => filter_result = Returned(SelectSeq(FeedFeatures, MeetsAllFour))

\* C1 witness: two corridors and two features that both intersect the second
\* corridor only, the first invalid and the second valid: the call returned the
\* second one alone.
C1_Witness ==
    /\ pc = "done"
    /\ Len(buffers) = 2
    /\ Len(FeedFeatures) = 2
    /\ \A i \in 1..2 : FeedFeatures[i].cells \cap buffers[1] = {}
    /\ FeedFeatures[1].geometry = "invalid" /\ IntersectsCorridors(FeedFeatures[1])
    /\ FeedFeatures[2].geometry = "valid" /\ IntersectsCorridors(FeedFeatures[2])
    /\ filter_result = Returned(<<FeedFeatures[2]>>)

\* C2: the filter never raises, whatever the feed holds: every call returns a
\* list of hits.
C2_FilterNeverRaises == pc = "done" => filter_result.outcome = "return"

\* C3: the plane markers handed to the renderer by a tick are the precomputed
\* route points at the frame index of that tick's wall-clock reading.
C3_PlaneFollowsTickClock ==
    last_render = "ok" =>
        \A r \in DOMAIN ROUTES :
            deck.planes[r].data = <<plane_traces[r][clock_frame(tick_now)]>>

\* C4: the phase of a tick is (now_ms mod 3000) / 3000 of that tick's clock
\* reading: in [0, 1), 0 at every multiple of 3000 ms, and the same 3000 ms later.
C4_PhaseIsSawtoothOfTickClock ==
    last_render # "none" =>
        /\ scale = tick_now - CYCLE_DURATION_MS * (tick_now \div CYCLE_DURATION_MS)
        /\ 0 <= scale /\ scale < CYCLE_DURATION_MS
        /\ (\E k \in 0..(MaxNow \div CYCLE_DURATION_MS + 1) :
                tick_now = k * CYCLE_DURATION_MS) => scale = 0
        /\ phase(tick_now + CYCLE_DURATION_MS) = scale

\* C4 witness: a tick at a multiple of the cycle after the first cycle, phase 0
C4_Witness ==
    /\ last_render = "ok"
    /\ tick_now = 2 * CYCLE_DURATION_MS
    /\ scale = 0

\* C5: the frame index of get_plane_layers is floor(now_seconds * S) mod N, an
\* integer of [0, N), and each layer holds exactly one precomputed route point,
\* the one at that index.
C5_FrameIndexSelectsOnePoint ==
    pc = "done" =>
        /\ plane_frame = ((now * PLANE_SPEED_FACTOR) \div MsPerSecond) % N_POINTS
        /\ plane_frame \in 0..(N_POINTS - 1)
        /\ \A r \in DOMAIN ROUTES :
              plane_layers[r].data = <<plane_traces[r][plane_frame]>>

\* C5 witness: a call after the index has wrapped once (50 s), on frame 1
C5_Witness ==
    /\ pc = "done"
    /\ now > (N_POINTS * MsPerSecond) \div PLANE_SPEED_FACTOR
    /\ plane_frame = 1
    /\ Len(plane_layers[1].data) = 1

WithCentroid == SelectSeq(pulse_features, centroid_available)

Complete(section) ==
    section.isdict /\ section.longitude # None /\ section.latitude # None

Usable(f) == Complete(f.live) \/ Complete(f.arrival)

UsablePosition(f) ==
    IF Complete(f.live)
    THEN [lon |-> f.live.longitude[1], lat |-> f.live.latitude[1]]
    ELSE [lon |-> f.arrival.longitude[1], lat |-> f.arrival.latitude[1]]

ExpectedPoints ==
    LET usable == SelectSeq(flights, Usable)
    IN  [i \in DOMAIN usable |-> UsablePosition(usable[i])]

\* C9: flights_to_layer returns, for every list of records, one point per
\* record with a complete live position or else a complete arrival position,
\* in input order, and no layer when there is no such record.
C9_OnePointPerUsableRecord ==
    pc = "done" =>
        /\ flights_result.outcome = "return"
        /\ flights_result.value.data = ExpectedPoints
        /\ flights_result.value.isNone <=> (ExpectedPoints = <<>>)

\* C9 witness: a record with half a live position and a complete arrival at
\* longitude 0, then a record with no position at all: one point, the arrival
C9_Witness ==
    /\ pc = "done"
    /\ Len(flights) = 2
    /\ flights[1].live.isdict /\ flights[1].live.longitude # None
    /\ flights[1].live.latitude = None
    /\ Complete(flights[1].arrival) /\ flights[1].arrival.longitude = Num(0)
    /\ ~Usable(flights[2])
    /\ flights_result.value.data = <<[lon |-> 0, lat |-> 3]>>

\* C10: a render error is caught and reported once and ends the loop: no tick
\* follows it; a tick that did not fail is followed by another tick.
C10_RenderErrorEndsLoop ==
    /\ [](last_render = "error" => (pc = "stopped" /\ errors = 1))
    /\ [](errors >= 1 => last_render = "error")
    /\ [][last_render = "error" => UNCHANGED <<tick_now, deck, last_render, errors>>]_vars
    /\ [](pc = "sleep" => <>(pc = "loop"))
    /\ [](pc = "loop" => <>(pc \in {"sleep", "stopped"}))

\* C10 witness: ticks rendered, the clock moved on, then a render error: the
\* loop stopped with one report
C10_Witness ==
    /\ last_render = "error"
    /\ pc = "stopped"
    /\ errors = 1
    /\ deck # NoDeck
    /\ tick_now > 0

====
